---- MODULE Spec2Model ----
(***************************************************************************)
(* LitmusClassificationMultiModel: a FreqAI prediction model plugin.       *)
(*                                                                         *)
(* The plugin owns three hooks, train / fit / predict, and the min-max     *)
(* normalizer normalize_data.  The data kitchen `dk` (feature filtering,   *)
(* train/test split, per-pair store dk.data, dk.data_dictionary) and the   *)
(* CatBoost classifier are collaborators: what they hand back to the       *)
(* plugin is an input of a call, what the plugin does with it is modelled  *)
(* from the source.                                                        *)
(*                                                                         *)
(* A feature matrix (DataFrame) is a function  column name -> sequence of  *)
(* row values.  A normalized value is an exact fraction [n, d]; d = 0      *)
(* encodes the non-finite floats: 0/0 is NaN, 1/0 is +inf, -1/0 is -inf.   *)
(***************************************************************************)
EXTENDS Integers, Sequences, FiniteSets, TLC

VARIABLES
    model,   \* self.model: the classifier predict uses; the caller of train sets it
    dk,      \* the data kitchen: data, data_dictionary, training_features_list, do_predict
    ret,     \* the latest call: which hook, the steps it ran, what it returned, and the
             \* filtered dataframe a predict call got from filter_features
    hist     \* history: the raw partitions the latest normalize_data was given

vars == <<model, dk, ret, hist>>

-----------------------------------------------------------------------------
(* Bounds of the enumerated inputs *)

MaxVal == 2
NRows == 2

Values == {5 * k : k \in 0..MaxVal}
Rows == 1..NRows
ColSets == {{"a"}, {"a", "b"}}
Classes == {0, 1}

EmptyMap == [k \in {} |-> 0]

-----------------------------------------------------------------------------
(* Floating point results as exact fractions *)

Abs(x) == IF x < 0 THEN -x ELSE x

RECURSIVE GCD(_, _)
GCD(x, y) == IF y = 0 THEN x ELSE GCD(y, x % y)

NaN == [n |-> 0, d |-> 0]
PosInf == [n |-> 1, d |-> 0]
NegInf == [n |-> -1, d |-> 0]

\* num / den as IEEE division does it: x/0 is +-inf, 0/0 is NaN
Div(num, den) ==
    IF den = 0
    THEN IF num = 0 THEN NaN ELSE IF num > 0 THEN PosInf ELSE NegInf
    ELSE LET s == IF den < 0 THEN -1 ELSE 1
             g == GCD(Abs(num), Abs(den))
         IN [n |-> (s * num) \div g, d |-> (s * den) \div g]

\* q - 1; a non-finite q stays what it is
MinusOne(q) == IF q.d = 0 THEN q ELSE [n |-> q.n - q.d, d |-> q.d]

IsFinite(q) == q.d # 0
Leq(p, q) == p.n * q.d <= q.n * p.d     \* for finite p, q
Whole(k) == [n |-> k, d |-> 1]

-----------------------------------------------------------------------------
(* pandas helpers *)

Range(s) == {s[i] : i \in DOMAIN s}
SeriesMax(s) == CHOOSE x \in Range(s) : \A y \in Range(s) : y <= x
SeriesMin(s) == CHOOSE x \in Range(s) : \A y \in Range(s) : x <= y

\* DataFrame.max() / DataFrame.min(): one value per column
FrameMax(df) == [c \in DOMAIN df |-> SeriesMax(df[c])]
FrameMin(df) == [c \in DOMAIN df |-> SeriesMin(df[c])]

\* 2 * (v - lo) / (hi - lo) - 1
MinMaxScale(v, lo, hi) == MinusOne(Div(2 * (v - lo), hi - lo))

\* 2 * (df - lo) / (hi - lo) - 1, lo and hi aligned on df's columns
ScaleFrame(df, lo, hi) ==
    [c \in DOMAIN df |-> [i \in DOMAIN df[c] |-> MinMaxScale(df[c][i], lo[c], hi[c])]]

MaxKey(item) == item \o "_max"
MinKey(item) == item \o "_min"
ParamKeys(cols) == {MaxKey(c) : c \in cols} \cup {MinKey(c) : c \in cols}

-----------------------------------------------------------------------------
(* normalize_data *)

\* (mutant) dk.data replaced by a fresh dict of the parameters
StoreParams_fresh(data, train_min, train_max) ==
    [k \in ParamKeys(DOMAIN train_max) |->
        IF \E c \in DOMAIN train_max : k = MaxKey(c)
        THEN train_max[CHOOSE c \in DOMAIN train_max : k = MaxKey(c)]
        ELSE train_min[CHOOSE c \in DOMAIN train_min : k = MinKey(c)]]

\* (mutant) the two suffixes swapped
StoreParams_swapped(data, train_min, train_max) ==
    [k \in DOMAIN data \cup ParamKeys(DOMAIN train_max) |->
        IF \E c \in DOMAIN train_max : k = MaxKey(c)
        THEN train_min[CHOOSE c \in DOMAIN train_max : k = MaxKey(c)]
        ELSE IF \E c \in DOMAIN train_min : k = MinKey(c)
        THEN train_max[CHOOSE c \in DOMAIN train_min : k = MinKey(c)]
        ELSE data[k]]

\* the dk.data writes of the closing loop: for item in train_max.keys()
StoreParams(data, train_min, train_max) ==
    [k \in DOMAIN data \cup ParamKeys(DOMAIN train_max) |->
        IF \E c \in DOMAIN train_max : k = MaxKey(c)
        THEN train_max[CHOOSE c \in DOMAIN train_max : k = MaxKey(c)]
        ELSE IF \E c \in DOMAIN train_min : k = MinKey(c)
        THEN train_min[CHOOSE c \in DOMAIN train_min : k = MinKey(c)]
        ELSE data[k]]

\* (mutant) the statistics taken over the train and the test rows together
normalize_data_all_rows(data_dictionary, data) ==
    LET both == [c \in DOMAIN data_dictionary.train_features |->
                    data_dictionary.train_features[c] \o data_dictionary.test_features[c]]
        train_max == FrameMax(both)
        train_min == FrameMin(both)
    IN [data_dictionary |->
            [data_dictionary EXCEPT
                !.train_features = ScaleFrame(@, train_min, train_max),
                !.test_features = ScaleFrame(@, train_min, train_max)],
        data |-> StoreParams(data, train_min, train_max)]

\* returns the updated data_dictionary and the updated dk.data
normalize_data(data_dictionary, data) ==
    LET train_max == FrameMax(data_dictionary.train_features)
        train_min == FrameMin(data_dictionary.train_features)
    IN [data_dictionary |->
            [data_dictionary EXCEPT
                !.train_features = ScaleFrame(@, train_min, train_max),
                !.test_features = ScaleFrame(@, train_min, train_max)],
        data |-> StoreParams(data, train_min, train_max)]

-----------------------------------------------------------------------------
(* fit *)

NumRows(df) == IF DOMAIN df = {} THEN 0 ELSE Len(df[CHOOSE c \in DOMAIN df : TRUE])

\* CatBoostClassifier(loss_function='MultiClass', ...).fit(X, y, sample_weight, eval_set):
\* the fitted classifier is opaque; it is recorded by what it was fitted on.
\* Fitting raises when the target holds fewer than two classes.
clf_fit(X, y, sample_weight, eval_set) ==
    IF Cardinality(Range(y)) < 2 \/ NumRows(X) # Len(y) \/ Len(sample_weight) # Len(y)
    THEN [raised |-> TRUE]
    ELSE [raised |-> FALSE,
          clf |-> [fitted |-> TRUE, X |-> X, y |-> y, sample_weight |-> sample_weight,
                   eval_set |-> eval_set, feature_names_ |-> DOMAIN X,
                   classes_ |-> Range(y)]]

\* (mutant) the partitions by their names: fitted on train, evaluated on test
fit_on_train(data_dictionary) ==
    clf_fit(data_dictionary.train_features, data_dictionary.train_labels,
            data_dictionary.train_weights,
            <<data_dictionary.test_features, data_dictionary.test_labels>>)

fit(data_dictionary) ==
    LET X_test == data_dictionary.train_features
        y_test == data_dictionary.train_labels
        X_train == data_dictionary.test_features
        y_train == data_dictionary.test_labels
        sample_weight == data_dictionary.test_weights
    IN clf_fit(X_train, y_train, sample_weight, <<X_test, y_test>>)

-----------------------------------------------------------------------------
(* train *)

NoModel == [fitted |-> FALSE]
NoValue == [none |-> TRUE]

TrainSteps ==
    <<"filter_features", "make_train_test_datasets", "normalize_data",
      "data_cleaning_train", "fit">>

Raised(steps, kitchen) == [status |-> "raised", steps |-> steps, dk |-> kitchen, value |-> NoValue]
Returned(steps, kitchen, value) == [status |-> "ok", steps |-> steps, dk |-> kitchen, value |-> value]

\* (mutant) the classifier fitted on the partitions as the kitchen split them, normalized
\* only afterwards
train_fit_first(call, kitchen) ==
    IF call.raises = "filter_features"
    THEN Raised(SubSeq(TrainSteps, 1, 1), kitchen)
    ELSE IF call.raises = "make_train_test_datasets"
    THEN Raised(SubSeq(TrainSteps, 1, 2), kitchen)
    ELSE
    LET fitted == fit([call.data_dictionary EXCEPT
                          !.train_features = [c \in DOMAIN @ |-> [i \in DOMAIN @[c] |-> Whole(@[c][i])]],
                          !.test_features = [c \in DOMAIN @ |-> [i \in DOMAIN @[c] |-> Whole(@[c][i])]]])
        normalized == normalize_data(call.data_dictionary, kitchen.data)
        dk1 == [kitchen EXCEPT !.data_dictionary = normalized.data_dictionary,
                               !.data = normalized.data]
    IN  IF call.raises = "data_cleaning_train"
        THEN Raised(SubSeq(TrainSteps, 1, 4), dk1)
        ELSE IF fitted.raised
        THEN Raised(TrainSteps, dk1)
        ELSE Returned(TrainSteps, dk1, fitted.clf)

\* call.raises names the data kitchen step that raises for this dataframe ("none" when
\* none does); call.data_dictionary is what make_train_test_datasets returns, which is
\* also the object the kitchen keeps as dk.data_dictionary.
train(call, kitchen) ==
    IF call.raises = "filter_features"
    THEN Raised(SubSeq(TrainSteps, 1, 1), kitchen)
    ELSE IF call.raises = "make_train_test_datasets"
    THEN Raised(SubSeq(TrainSteps, 1, 2), kitchen)
    ELSE
    LET normalized == normalize_data(call.data_dictionary, kitchen.data)
        \* data_dictionary is dk.data_dictionary: normalize_data assigns into the same dict
        dk1 == [kitchen EXCEPT !.data_dictionary = normalized.data_dictionary,
                               !.data = normalized.data]
        fitted == fit(normalized.data_dictionary)
    IN  IF call.raises = "data_cleaning_train"
        THEN Raised(SubSeq(TrainSteps, 1, 4), dk1)
        ELSE IF fitted.raised
        THEN Raised(TrainSteps, dk1)
        ELSE Returned(TrainSteps, dk1, fitted.clf)

-----------------------------------------------------------------------------
(* predict *)

PredictSteps ==
    <<"find_features", "filter_features", "normalize_data_from_metadata",
      "data_cleaning_predict", "predict_proba">>

\* What the kitchen does with a column whose parameters are not stored is not fixed:
\* it fails, or it silently hands back garbage in that column (the raw values, or NaN).
MissingOutcomes == {"raise", "unscaled", "nan"}

\* dk.normalize_data_from_metadata: the same affine map per column, from the stored
\* "<column>_min" / "<column>_max"; with a key missing, one of MissingOutcomes
normalize_data_from_metadata(df, data, missing) ==
    IF ~(ParamKeys(DOMAIN df) \subseteq DOMAIN data) /\ missing = "raise"
    THEN [raised |-> TRUE]
    ELSE [raised |-> FALSE,
          df |-> [c \in DOMAIN df |->
                    [i \in DOMAIN df[c] |->
                        IF ParamKeys({c}) \subseteq DOMAIN data
                        THEN MinMaxScale(df[c][i], data[MinKey(c)], data[MaxKey(c)])
                        ELSE IF missing = "unscaled" THEN Whole(df[c][i]) ELSE NaN]]]

\* self.model.predict_proba(X): one probability row per input row, one column per class;
\* raises without a fitted classifier or when X's columns are not the fitted ones
predict_proba(clf, X) ==
    IF ~clf.fitted THEN [raised |-> TRUE]
    ELSE IF clf.feature_names_ # DOMAIN X THEN [raised |-> TRUE]
    ELSE [raised |-> FALSE,
          pred_df |-> [columns |-> clf.classes_, rows |-> NumRows(X), of |-> X]]

\* (mutant) the dict replaced by one holding only the new item
SetItem_only(dict, key, value) == [k \in {key} |-> value]

\* dict[key] = value
SetItem(dict, key, value) ==
    [k \in DOMAIN dict \cup {key} |-> IF k = key THEN value ELSE dict[k]]

\* call.frame is the dataframe's feature columns as filter_features returns them
predict(call, kitchen, self_model) ==
    IF call.raises = "find_features"
    THEN Raised(SubSeq(PredictSteps, 1, 1), kitchen)
    ELSE
    LET dk1 == [kitchen EXCEPT !.training_features_list = DOMAIN call.frame]
    IN  IF call.raises = "filter_features"
        THEN Raised(SubSeq(PredictSteps, 1, 2), dk1)
        ELSE
        LET dk2 == [dk1 EXCEPT !.do_predict = [i \in 1..NumRows(call.frame) |-> 1]]
            filtered_dataframe ==
                normalize_data_from_metadata(call.frame, dk2.data, call.missing)
        IN  IF filtered_dataframe.raised
            THEN Raised(SubSeq(PredictSteps, 1, 3), dk2)
            ELSE
            LET dk3 == [dk2 EXCEPT !.data_dictionary =
                            SetItem(@, "prediction_features", filtered_dataframe.df)]
                predictions == predict_proba(self_model,
                                             dk3.data_dictionary["prediction_features"])
            IN  IF call.raises = "data_cleaning_predict"
                THEN Raised(SubSeq(PredictSteps, 1, 4), dk3)
                ELSE IF predictions.raised
                THEN Raised(PredictSteps, dk3)
                ELSE Returned(PredictSteps, dk3,
                              [pred_df |-> predictions.pred_df,
                               do_predict |-> dk3.do_predict])

-----------------------------------------------------------------------------
(* Inputs *)

\* every column vector of NRows values
Vecs == [Rows -> Values]
\* the vectors 0, v, v, ...: one constant column, the others of growing width
StepVecs == {[i \in Rows |-> IF i = 1 THEN 0 ELSE v] : v \in Values}
ConstVecs == {[i \in Rows |-> v] : v \in Values}
HeldOutVec == [i \in Rows |-> IF i = 1 THEN 0 ELSE 5 * MaxVal]

LabelVecs == {[i \in Rows |-> i % 2], [i \in Rows |-> 1]}

Partitions(train_features, test_vec, test_labels) ==
    [train_features |-> train_features,
     test_features |-> [c \in DOMAIN train_features |-> test_vec],
     train_labels |-> [i \in Rows |-> (i + 1) % 2],
     test_labels |-> test_labels,
     train_weights |-> [i \in Rows |-> NRows + 1 - i],
     test_weights |-> [i \in Rows |-> i]]

TrainRaises == {"none", "filter_features", "make_train_test_datasets", "data_cleaning_train"}

\* a kitchen step that raises before make_train_test_datasets returns hands nothing back
TrainCallsOver(frames, test_vecs, raises) ==
    {[raises |-> r, data_dictionary |-> Partitions(f, tv, y)] :
        r \in raises \cap {"none", "data_cleaning_train"},
        f \in frames, tv \in test_vecs, y \in LabelVecs}
    \cup {[raises |-> r] : r \in raises \cap {"filter_features", "make_train_test_datasets"}}

\* repeated training cycles: a small family of partitions, every column the same vector,
\* and a kitchen that does not raise
TrainCalls ==
    TrainCallsOver({[c \in cs |-> v] : cs \in ColSets, v \in StepVecs},
                   {HeldOutVec}, {"none"})

\* one training cycle: every vector in column a, every held-out value; and the small
\* family again with each step of the kitchen raising
AllTrainCalls ==
    TrainCallsOver([{"a"} -> Vecs] \cup {[c \in {"a", "b"} |-> IF c = "a" THEN va ELSE vb] :
                                            va \in Vecs, vb \in StepVecs \cup ConstVecs},
                   StepVecs, {"none"})
    \cup TrainCallsOver({[c \in cs |-> v] : cs \in ColSets, v \in StepVecs},
                        {HeldOutVec}, TrainRaises)

PredictRaises == {"none", "find_features", "filter_features", "data_cleaning_predict"}

\* new rows, the same value in every column
PredictCallsOver(raises) ==
    {[raises |-> r, missing |-> m, frame |-> [c \in cs |-> [i \in Rows |-> v]]] :
        r \in raises, m \in MissingOutcomes, cs \in ColSets, v \in Values}

PredictCalls == PredictCallsOver({"none"})
AllPredictCalls == PredictCallsOver(PredictRaises)

-----------------------------------------------------------------------------
(* State machine *)

Init ==
    /\ model = NoModel
    /\ dk = [data |-> [k \in {"model_filename"} |-> "cb_pair"],
             data_dictionary |-> EmptyMap,
             training_features_list |-> {},
             do_predict |-> <<>>]
    /\ ret = [op |-> "init", frame |-> EmptyMap, status |-> "ok", steps |-> <<>>,
              value |-> NoValue]
    /\ hist = [raw |-> EmptyMap]

Normalized(r) == Len(r.steps) >= 3

\* one train call: it returns the classifier and leaves self.model alone
TrainWith(call) ==
    LET r == train(call, dk)
    IN  /\ dk' = r.dk
        /\ ret' = [op |-> "train", frame |-> EmptyMap, status |-> r.status,
                   steps |-> r.steps, value |-> r.value]
        /\ hist' = [raw |-> IF Normalized(r) THEN call.data_dictionary ELSE hist.raw]
        /\ UNCHANGED model

\* the caller of train, once train has returned a classifier, keeps it as self.model
AssignModel ==
    /\ ret.op = "train"
    /\ ret.status = "ok"
    /\ model' = ret.value
    /\ UNCHANGED <<dk, ret, hist>>

PredictWith(call) ==
    LET r == predict(call, dk, model)
    IN  /\ dk' = r.dk
        /\ ret' = [op |-> "predict", frame |-> IF Len(r.steps) >= 3 THEN call.frame ELSE EmptyMap,
                   status |-> r.status, steps |-> r.steps, value |-> r.value]
        /\ UNCHANGED <<model, hist>>

Train == \E call \in TrainCalls : TrainWith(call)

Predict == \E call \in PredictCalls : PredictWith(call)

\* inference on the very rows the latest cycle was normalized on
PredictTrainingMatrix ==
    /\ DOMAIN hist.raw # {}
    /\ PredictWith([raises |-> "none", missing |-> "raise",
                    frame |-> hist.raw.train_features])

Next == Train \/ AssignModel \/ Predict \/ PredictTrainingMatrix

Spec == Init /\ [][Next]_vars

\* a single training cycle over every matrix of the bounds, then one inference call
TrainOnce ==
    /\ ret.op = "init"
    /\ \E call \in AllTrainCalls : TrainWith(call)

PredictOnce ==
    /\ ret.op = "train"
    /\ \E call \in AllPredictCalls : PredictWith(call)

PredictTrainingMatrixOnce ==
    /\ ret.op = "train"
    /\ PredictTrainingMatrix

NextCycle == TrainOnce \/ AssignModel \/ PredictOnce \/ PredictTrainingMatrixOnce

SpecCycle == Init /\ [][NextCycle]_vars

-----------------------------------------------------------------------------
(* What the claims speak about *)

Trained == DOMAIN hist.raw # {}
RawTrain == hist.raw.train_features
RawTest == hist.raw.test_features
Degenerate(c) == SeriesMin(RawTrain[c]) = SeriesMax(RawTrain[c])
PassedNormalization == ret.op = "predict" /\ Len(ret.steps) >= 4
Cells(df) == {df[c][i] : c \in DOMAIN df, i \in Rows}
IsPrefix(s, t) == Len(s) <= Len(t) /\ s = SubSeq(t, 1, Len(s))

\* C2 (as claimed): after normalize_data every train feature value lies within [-1, 1].
C2_TrainWithinUnitRange ==
    Trained =>
        \A q \in Cells(dk.data_dictionary.train_features) :
            IsFinite(q) /\ Leq(Whole(-1), q) /\ Leq(q, Whole(1))

\* C3 (as claimed): a train column with min = max is normalized to the default 0 (or the
\* call raises in normalize_data); no NaN or inf reaches the train or test features.
C3_DegenerateColumnHandled ==
    Trained =>
        /\ \A q \in Cells(dk.data_dictionary.train_features)
                    \cup Cells(dk.data_dictionary.test_features) : IsFinite(q)
        /\ \A c \in DOMAIN RawTrain :
              Degenerate(c) =>
                  \A i \in Rows : dk.data_dictionary.train_features[c][i] = Whole(0)

\* C10 (as claimed): a train call whose fit raises leaves the normalization parameters
\* that were stored in dk.data before the call as they were, so that the classifier of
\* the earlier cycle is never used with the parameters of a failed one.
C10_FailedFitKeepsParameters ==
    [][(ret'.op = "train" /\ ret'.status = "raised" /\ ret'.steps = TrainSteps) =>
          \A k \in ParamKeys(DOMAIN hist'.raw.train_features) \cap DOMAIN dk.data :
              dk'.data[k] = dk.data[k]]_vars

TrainLo == FrameMin(RawTrain)
TrainHi == FrameMax(RawTrain)

\* C1: the stored (min, max) of every column are those of the train partition alone, in
\* every state after a train and any number of predict calls; the train features, the
\* test features and an inference matrix are all scaled with that one pair.
C1_SameTrainParameters ==
    Trained =>
        /\ \A c \in DOMAIN RawTrain :
              /\ dk.data[MinKey(c)] = TrainLo[c]
              /\ dk.data[MaxKey(c)] = TrainHi[c]
        /\ dk.data_dictionary.train_features = ScaleFrame(RawTrain, TrainLo, TrainHi)
        /\ dk.data_dictionary.test_features = ScaleFrame(RawTest, TrainLo, TrainHi)
        /\ PassedNormalization =>
              \A c \in DOMAIN ret.frame \cap DOMAIN RawTrain :
                  \A i \in DOMAIN ret.frame[c] :
                      dk.data_dictionary.prediction_features[c][i]
                          = MinMaxScale(ret.frame[c][i], TrainLo[c], TrainHi[c])

\* a predict call returned after a cycle whose test rows exceed the train maximum
C1_Witness ==
    /\ Trained
    /\ PassedNormalization
    /\ ret.status = "ok"
    /\ \E c \in DOMAIN RawTrain :
          ~Degenerate(c) /\ SeriesMax(RawTest[c]) > SeriesMax(RawTrain[c])

\* C4: a train call that got through normalize_data leaves, for every train column c,
\* dk.data[c_min] = the train minimum and dk.data[c_max] = the train maximum, adds no
\* other key and changes no entry under any other key.
C4_StoreWrittenUnderOwnKeys ==
    [][(ret'.op = "train" /\ Len(ret'.steps) >= 3) =>
          LET raw_train == hist'.raw.train_features
          IN  /\ \A c \in DOMAIN raw_train :
                    /\ dk'.data[MinKey(c)] = SeriesMin(raw_train[c])
                    /\ dk'.data[MaxKey(c)] = SeriesMax(raw_train[c])
              /\ DOMAIN dk'.data = DOMAIN dk.data \cup ParamKeys(DOMAIN raw_train)
              /\ \A k \in DOMAIN dk.data \ ParamKeys(DOMAIN raw_train) :
                    dk'.data[k] = dk.data[k]]_vars

\* a cycle on column a alone, with column b's entries of an earlier cycle in the store
C4_Witness ==
    /\ ret.op = "train"
    /\ Len(ret.steps) >= 3
    /\ DOMAIN RawTrain = {"a"}
    /\ {MinKey("b"), MaxKey("b"), "model_filename"} \subseteq DOMAIN dk.data
    /\ dk.data[MinKey("a")] < dk.data[MaxKey("a")]

\* C5: the classifier a train call returns was fitted on the normalized test features,
\* the test labels and the test weights, with the normalized train features and the
\* train labels as its evaluation set; the train weights are not passed to it.
C5_FitOnTestPartition ==
    (ret.op = "train" /\ ret.status = "ok") =>
        /\ ret.value.X = dk.data_dictionary.test_features
        /\ ret.value.X = ScaleFrame(RawTest, TrainLo, TrainHi)
        /\ ret.value.y = hist.raw.test_labels
        /\ ret.value.sample_weight = hist.raw.test_weights
        /\ ret.value.eval_set = <<dk.data_dictionary.train_features, hist.raw.train_labels>>

\* a classifier returned for partitions that differ in features, labels and weights
C5_Witness ==
    /\ ret.op = "train"
    /\ ret.status = "ok"
    /\ RawTrain # RawTest
    /\ hist.raw.train_labels # hist.raw.test_labels
    /\ hist.raw.train_weights # hist.raw.test_weights
    /\ dk.data_dictionary.train_features # dk.data_dictionary.test_features

\* C6 (as claimed): a predict call leaves the classifier, dk.data and the kitchen's
\* data_dictionary exactly as they were.
C6_PredictChangesNothing ==
    [][ret'.op = "predict" =>
          /\ model' = model
          /\ dk'.data = dk.data
          /\ dk'.data_dictionary = dk.data_dictionary]_vars

\* C6 (amended): a predict call leaves the classifier and dk.data as they were; in the
\* data_dictionary it writes the "prediction_features" entry and nothing else.
C6_PredictWritesPredictionFeaturesOnly ==
    [][ret'.op = "predict" =>
          /\ model' = model
          /\ dk'.data = dk.data
          /\ DOMAIN dk.data_dictionary \subseteq DOMAIN dk'.data_dictionary
          /\ DOMAIN dk'.data_dictionary
                \subseteq DOMAIN dk.data_dictionary \cup {"prediction_features"}
          /\ \A k \in DOMAIN dk.data_dictionary \ {"prediction_features"} :
                dk'.data_dictionary[k] = dk.data_dictionary[k]]_vars

\* a predict call that returned, with the partitions of the training cycle still held
C6_Witness ==
    /\ ret.op = "predict"
    /\ ret.status = "ok"
    /\ {"train_features", "test_features", "prediction_features"}
          \subseteq DOMAIN dk.data_dictionary

\* C7 (as claimed): a predict call on a frame with a column whose "_min"/"_max" entries
\* are not in dk.data raises in the normalization step: no later step runs, the
\* classifier is not asked for probabilities, nothing is returned.
C7_MissingParametersRaise ==
    (/\ ret.op = "predict"
     /\ DOMAIN ret.frame # {}
     /\ ~(ParamKeys(DOMAIN ret.frame) \subseteq DOMAIN dk.data))
        => /\ ret.status = "raised"
           /\ ret.steps = SubSeq(PredictSteps, 1, 3)

\* C8: normalizing the raw training matrix from the stored parameters gives, in every
\* column with min < max, the values normalize_data gave the train features; and with
\* stored (min = 0, max = 10) for column a, a = 5 maps to 0.
C8_StoredParametersReproduceTrain ==
    /\ (Trained /\ PassedNormalization /\ ret.frame = RawTrain) =>
          \A c \in DOMAIN RawTrain :
              ~Degenerate(c) =>
                  dk.data_dictionary.prediction_features[c]
                      = dk.data_dictionary.train_features[c]
    /\ (/\ PassedNormalization
        /\ "a" \in DOMAIN ret.frame
        /\ ParamKeys({"a"}) \subseteq DOMAIN dk.data
        /\ dk.data[MinKey("a")] = 0
        /\ dk.data[MaxKey("a")] = 10) =>
          \A i \in DOMAIN ret.frame["a"] :
              ret.frame["a"][i] = 5 =>
                  dk.data_dictionary.prediction_features["a"][i] = Whole(0)

\* a predict call on the raw training matrix, one column of it with min < max
C8_Witness ==
    /\ Trained
    /\ PassedNormalization
    /\ ret.status = "ok"
    /\ ret.frame = RawTrain
    /\ \E c \in DOMAIN RawTrain : ~Degenerate(c)

====
